---------------------------- MODULE Spec2Model ----------------------------
(***************************************************************************)
(* A model of three pieces of the toolchain:                               *)
(*   - the lint rule NoShoutyConstants (run, action, remove_declarator),   *)
(*   - the lint rule NoForEach (run),                                      *)
(*   - the CSS parser's parse_color_profile_at_rule.                       *)
(* Each piece has its own specification (SpecShouty, SpecForEach,          *)
(* SpecCss); the variables of the other pieces stay at their idle values.  *)
(***************************************************************************)
EXTENDS Naturals, Sequences, FiniteSets

(***************************************************************************)
(* Bounds of the model.                                                    *)
(***************************************************************************)
\* longest declarator list of a declaration
MaxDecl == 3
\* most references a binding has in the semantic model
MaxRefs == 2
\* deepest nesting of parentheses around a callee or a computed member
MaxParens == 2
\* longest token sequence handed to the CSS parser
MaxTokens == 4

VARIABLES
    \* ---- NoShoutyConstants: the analyzed tree and the rule engine
    tree,       \* the declaration under analysis (immutable input)
    phase,      \* "run" | "action" | "merge" | "committed" | "idle"
    cursor,     \* the next declarator the engine hands to run / action
    signals,    \* per declarator: the Option<State> returned by run
    fixes,      \* per declarator: the Option<JsRuleAction> returned by action
    rd,         \* the last call of remove_declarator: its return and its edits
    merged,     \* the aggregated batch: the edits of the merged fixes
    mergedFrom, \* the declarators whose fixes were merged, in merge order
    result,     \* the declaration after the merged batch was committed
    \* ---- NoForEach
    call,       \* the queried JsCallExpression (immutable input)
    feSignals,  \* the signals NoForEach::run produced ("pending" before it ran)
    \* ---- parse_color_profile_at_rule
    tokens,     \* the token source (immutable input)
    pos,        \* index of the current token (Len(tokens)+1 is EOF)
    events,     \* the parser's event buffer
    open,       \* markers started and neither completed nor abandoned
    closed,     \* the markers completed, in completion order
    lifoBroken, \* a marker was completed while a later one was open
    diags,      \* the diagnostics pushed to the parser
    pc,         \* the position inside parse_color_profile_at_rule
    atRule,     \* locals of the function: marker m, kind, the entry position
    parsed      \* the ParsedSyntax returned ("pending" before the return)

shoutyVars == <<tree, phase, cursor, signals, fixes, rd, merged, mergedFrom, result>>
forEachVars == <<call, feSignals>>
cssVars == <<tokens, pos, events, open, closed, lifoBroken, diags, pc, atRule, parsed>>
vars == <<shoutyVars, forEachVars, cssVars>>

(***************************************************************************)
(* Small helpers on sequences.                                             *)
(***************************************************************************)
RECURSIVE SeqsUpTo(_, _)
SeqsUpTo(S, n) ==
    IF n = 0 THEN {<<>>}
    ELSE LET shorter == SeqsUpTo(S, n - 1)
         IN  shorter \cup {Append(s, x) : s \in {q \in shorter : Len(q) = n - 1}, x \in S}

Range(s) == {s[i] : i \in DOMAIN s}

(***************************************************************************)
(*                          NoShoutyConstants                              *)
(***************************************************************************)

\* ---- the syntax the rule looks at ---------------------------------------

DQ == "\""
SQ == "'"
NameFOO == <<"F", "O", "O">>
NameBAR == <<"B", "A", "R">>
NameLower == <<"f", "o", "o">>

\* the text of a string literal token: quote, inner text, quote
StringToken(q, inner) == <<q>> \o inner \o <<q>>

\* JsStringLiteralExpression::inner_string_text: the token text without its
\* first and last character (the quotes)
inner_string_text(token) == SubSeq(token, 2, Len(token) - 1)

\* SyntaxNode::text_trimmed: the node's text without its leading trivia
text_trimmed(node) == SubSeq(node.text, Len(node.leading) + 1, Len(node.text))

IdKinds == {"JsIdentifierBinding", "JsUnknownBinding", "JsObjectBindingPattern", "missing"}
\* an id: its kind, its leading trivia and its text, trivia included
Ids ==
    {[kind |-> k, leading |-> l, text |-> l \o n] :
        k \in IdKinds, l \in {<<>>, <<" ">>}, n \in {NameFOO, NameBAR}}

NoInit == [kind |-> "none", token |-> <<>>]
Inits ==
    {NoInit,
     [kind |-> "missing_expression", token |-> <<>>],
     [kind |-> "JsNumberLiteralExpression", token |-> <<"1">>],
     [kind |-> "JsIdentifierExpression", token |-> NameFOO]}
    \cup [kind : {"JsStringLiteralExpression"},
          token : {StringToken(q, s) : q \in {DQ, SQ}, s \in {NameFOO, NameBAR, NameLower}}]

Declarators == [id : Ids, init : Inits]

\* `const <name> = "<name>"`, the declarator the rule reports
ShoutyDecl(name, q) ==
    [id |-> [kind |-> "JsIdentifierBinding", leading |-> <<>>, text |-> name],
     init |-> [kind |-> "JsStringLiteralExpression", token |-> StringToken(q, name)]]
\* `const <name> = 1`
PlainDecl(name) ==
    [id |-> [kind |-> "JsIdentifierBinding", leading |-> <<>>, text |-> name],
     init |-> [kind |-> "JsNumberLiteralExpression", token |-> <<"1">>]]

\* the declarators of one list carry different names
Letters == <<"A", "B", "C", "D", "E", "F", "G", "H">>
ListName(i) == <<"K", Letters[i]>>
\* the lists of at most n declarators, each either reported or plain
DeclLists(n) ==
    {[i \in 1..Len(mask) |-> IF mask[i] THEN ShoutyDecl(ListName(i), DQ)
                                       ELSE PlainDecl(ListName(i))] :
        mask \in SeqsUpTo(BOOLEAN, n) \ {<<>>}}

\* the kinds of the ancestors of a declarator, nearest first
InStatement == <<"JsVariableDeclaratorList", "JsVariableDeclaration", "JsVariableStatement">>
InForInit == <<"JsVariableDeclaratorList", "JsVariableDeclaration", "JsForStatement">>
InExport == <<"JsVariableDeclaratorList", "JsVariableDeclaration", "JsVariableDeclarationClause">>
InForOf == <<"JsForVariableDeclaration", "JsForOfStatement">>
InUnknown == <<"JsVariableDeclaratorList", "JsUnknownStatement">>
Contexts == {InStatement, InForInit, InExport, InForOf, InUnknown}

\* the parent kinds a reference (a JsReferenceIdentifier) can have
RefParents == {"JsIdentifierExpression", "JsShorthandPropertyObjectMember"}
RefSeqs == SeqsUpTo(RefParents, MaxRefs)

\* A tree: the ancestors, the var/let/const token, the declarators of the
\* list, whether the last declarator carries a (superfluous) trailing comma,
\* and the shape of the reference list the semantic model holds for each
\* binding of the list.
WellFormedTree(t) ==
    /\ (t.ancestors = InForOf => Len(t.decls) = 1)
    /\ (t.lastComma => Len(t.decls) >= 2)

\* one declarator of any shape, in any context
SingleTrees ==
    {t \in [ancestors : Contexts, kind : {"const", "let"}, decls : {<<d>> : d \in Declarators},
            lastComma : {FALSE}, refs : {<<>>}] : WellFormedTree(t)}

\* lists of redundant and plain constants, with references
ListTrees ==
    {t \in [ancestors : {InStatement, InForInit, InExport}, kind : {"const"},
            decls : DeclLists(MaxDecl),
            lastComma : BOOLEAN, refs : RefSeqs] : WellFormedTree(t)}

Trees == SingleTrees \cup ListTrees

NDecl(t) == Len(t.decls)
\* element i of the separated list has a trailing separator
HasComma(t, i) == i < NDecl(t) \/ (i = NDecl(t) /\ t.lastComma)

\* AstNode::parent::<T>() along the ancestor chain: the ancestor at `depth`
\* when it exists and has kind T
parent_is(t, depth, T) == depth <= Len(t.ancestors) /\ t.ancestors[depth] = T

\* list.syntax_list().len(): the slots of the list, elements and separators
syntax_list_len(t) == NDecl(t) + Cardinality({i \in 1..NDecl(t) : HasComma(t, i)})

\* JsVariableDeclaration::is_const
is_const(t) == t.kind = "const"

\* Binding::all_references(model): the references of declarator d's binding
all_references(t, d) == t.refs

\* ---- Option values -------------------------------------------------------

NoState == [some |-> FALSE, literal |-> <<>>, references |-> <<>>]
SomeState(lit, refs) == [some |-> TRUE, literal |-> lit, references |-> refs]

\* ---- batch edits ---------------------------------------------------------

Target(node, i, k) == [node |-> node, index |-> i, sub |-> k]
StatementT == Target("statement", 0, 0)
DeclaratorT(i) == Target("declarator", i, 0)
CommaT(i) == Target("comma", i, 0)
ReferenceT(i, k) == Target("reference", i, k)

remove_node(target) == [op |-> "remove_node", target |-> target, with |-> <<>>]
remove_token(target) == [op |-> "remove_token", target |-> target, with |-> <<>>]
replace_node(target, new) == [op |-> "replace_node", target |-> target, with |-> new]


NoEdits == [some |-> FALSE, edits |-> <<>>]
SomeEdits(edits) == [some |-> TRUE, edits |-> edits]

\* ---- the rule's helpers ---------------------------------------------------

\* Option<(JsIdentifierBinding, JsStringLiteralExpression)>: `some` and the
\* literal's token text
is_id_and_string_literal_inner_text_equal(declarator) ==
    LET id == declarator.id
        init == declarator.init
    IN  IF id.kind = "missing" THEN NoState                     \* id().ok()?
        ELSE IF id.kind # "JsIdentifierBinding" THEN NoState    \* as_js_identifier_binding()?
        ELSE IF init.kind = "none" THEN NoState                 \* initializer()?
        ELSE IF init.kind = "missing_expression" THEN NoState   \* expression().ok()?
        ELSE IF init.kind # "JsStringLiteralExpression" THEN NoState
        ELSE IF text_trimmed(id) = inner_string_text(init.token)
             THEN SomeState(init.token, <<>>)
             ELSE NoState

RECURSIVE find_declarator(_, _, _, _)
\* the `for element in elements.by_ref()` loop of remove_declarator, from
\* element k on: the edits it records, previous_element (0 for None) and the
\* position the iterator is left at
find_declarator(t, d, k, previous_element) ==
    IF k > NDecl(t)
    THEN [edits |-> <<>>, previous_element |-> previous_element, next |-> k]
    ELSE IF k = d
    THEN [edits |-> <<remove_node(DeclaratorT(k))>>
                    \o (IF HasComma(t, k) THEN <<remove_token(CommaT(k))>> ELSE <<>>),
          previous_element |-> previous_element,
          next |-> k + 1]
    ELSE find_declarator(t, d, k + 1, k)

\* remove_declarator without the `is_last` repair of the preceding comma
remove_declarator_no_last_repair(t, d) ==
    IF ~parent_is(t, 1, "JsVariableDeclaratorList") THEN NoEdits
    ELSE IF ~parent_is(t, 2, "JsVariableDeclaration") THEN NoEdits
    ELSE IF syntax_list_len(t) = 1
    THEN IF ~parent_is(t, 3, "JsVariableStatement") THEN NoEdits
         ELSE SomeEdits(<<remove_node(StatementT)>>)
    ELSE SomeEdits(find_declarator(t, d, 1, 0).edits)

\* remove_declarator without the sole-declarator branch
remove_declarator_no_statement(t, d) ==
    IF ~parent_is(t, 1, "JsVariableDeclaratorList") THEN NoEdits
    ELSE IF ~parent_is(t, 2, "JsVariableDeclaration") THEN NoEdits
    ELSE SomeEdits(find_declarator(t, d, 1, 0).edits)

\* remove_declarator(batch, declarator), the batch empty at the call: the
\* Option<()> it returns (`some`) and the edits it leaves in the batch
remove_declarator(t, d) ==
    IF ~parent_is(t, 1, "JsVariableDeclaratorList") THEN NoEdits
    ELSE IF ~parent_is(t, 2, "JsVariableDeclaration") THEN NoEdits
    ELSE IF syntax_list_len(t) = 1
    THEN IF ~parent_is(t, 3, "JsVariableStatement") THEN NoEdits
         ELSE SomeEdits(<<remove_node(StatementT)>>)
    ELSE LET loop == find_declarator(t, d, 1, 0)
             is_last == loop.next > NDecl(t)       \* elements.next().is_none()
             prev == loop.previous_element
         IN  SomeEdits(loop.edits
                       \o (IF is_last /\ prev # 0 /\ HasComma(t, prev)
                           THEN <<remove_token(CommaT(prev))>>
                           ELSE <<>>))

\* run without the `declaration.is_const()` test
NoShoutyConstants_run_any_kind(t, d) ==
    IF ~parent_is(t, 1, "JsVariableDeclaratorList") THEN NoState
    ELSE IF ~parent_is(t, 2, "JsVariableDeclaration") THEN NoState
    ELSE LET equal == is_id_and_string_literal_inner_text_equal(t.decls[d])
         IN  IF equal.some THEN SomeState(equal.literal, all_references(t, d)) ELSE NoState

\* NoShoutyConstants::run on declarator d
NoShoutyConstants_run(t, d) ==
    IF ~parent_is(t, 1, "JsVariableDeclaratorList") THEN NoState
    ELSE IF ~parent_is(t, 2, "JsVariableDeclaration") THEN NoState
    ELSE LET equal == is_id_and_string_literal_inner_text_equal(t.decls[d])
         IN  IF is_const(t) /\ equal.some
             THEN SomeState(equal.literal, all_references(t, d))
             ELSE NoState

RECURSIVE replace_references(_, _, _, _)
\* the `for reference in state.references.iter()` loop of action, from
\* reference k on, with the batch built so far
replace_references(d, state, k, batch) ==
    IF k > Len(state.references) THEN SomeEdits(batch)
    ELSE IF state.references[k] # "JsIdentifierExpression" THEN NoEdits   \* parent()?.cast()?
    ELSE replace_references(d, state, k + 1,
                            Append(batch, replace_node(ReferenceT(d, k), state.literal)))

\* NoShoutyConstants::action for the signal `state` of declarator d: the
\* Option<JsRuleAction> (`some`) and the edits of its mutation
NoShoutyConstants_action(t, d, state) ==
    replace_references(d, state, 1, remove_declarator(t, d).edits)

\* ---- committing a batch ---------------------------------------------------

Removed(batch, target) ==
    \E k \in DOMAIN batch :
        batch[k].op \in {"remove_node", "remove_token"} /\ batch[k].target = target

RECURSIVE remaining_slots(_, _, _)
\* the slots of the declarator list that the batch does not remove, from
\* element k on, in source order
remaining_slots(t, batch, k) ==
    IF k > NDecl(t) THEN <<>>
    ELSE (IF Removed(batch, DeclaratorT(k)) THEN <<>> ELSE <<DeclaratorT(k)>>)
         \o (IF HasComma(t, k) /\ ~Removed(batch, CommaT(k)) THEN <<CommaT(k)>> ELSE <<>>)
         \o remaining_slots(t, batch, k + 1)

\* BatchMutation::commit: the statement (if it survives) and the slots of
\* its declarator list
commit(t, batch) ==
    IF Removed(batch, StatementT)
    THEN [statement |-> FALSE, slots |-> <<>>]
    ELSE [statement |-> TRUE, slots |-> remaining_slots(t, batch, 1)]

\* ---- the rule engine over one declaration --------------------------------

NoCall == [called |-> FALSE, index |-> 0, some |-> FALSE, edits |-> <<>>]

InitShoutyVars ==
    /\ tree \in Trees
    /\ phase = "run"
    /\ cursor = 1
    /\ signals = [i \in 1..NDecl(tree) |-> NoState]
    /\ fixes = [i \in 1..NDecl(tree) |-> NoEdits]
    /\ rd = NoCall
    /\ merged = <<>>
    /\ mergedFrom = <<>>
    /\ result = commit(tree, <<>>)

IdleShoutyVars ==
    /\ tree = [ancestors |-> InStatement, kind |-> "let", decls |-> <<PlainDecl(NameBAR)>>,
               lastComma |-> FALSE, refs |-> <<>>]
    /\ phase = "idle"
    /\ cursor = 1
    /\ signals = <<NoState>>
    /\ fixes = <<NoEdits>>
    /\ rd = NoCall
    /\ merged = <<>>
    /\ mergedFrom = <<>>
    /\ result = [statement |-> TRUE, slots |-> <<DeclaratorT(1)>>]

Advance(nextPhase) ==
    IF cursor = NDecl(tree)
    THEN cursor' = 1 /\ phase' = nextPhase
    ELSE cursor' = cursor + 1 /\ phase' = phase

\* the engine hands the next declarator to run
RunStep ==
    /\ phase = "run"
    /\ signals' = [signals EXCEPT ![cursor] = NoShoutyConstants_run(tree, cursor)]
    /\ Advance("action")
    /\ UNCHANGED <<tree, fixes, rd, merged, mergedFrom, result>>

\* the engine asks for the fix of the next signal
ActionStep ==
    /\ phase = "action"
    /\ signals[cursor].some
    /\ fixes' = [fixes EXCEPT ![cursor] = NoShoutyConstants_action(tree, cursor, signals[cursor])]
    /\ LET r == remove_declarator(tree, cursor)
       IN  rd' = [called |-> TRUE, index |-> cursor, some |-> r.some, edits |-> r.edits]
    /\ Advance("merge")
    /\ UNCHANGED <<tree, signals, merged, mergedFrom, result>>

\* a declarator without a signal has no fix
NoSignalStep ==
    /\ phase = "action"
    /\ ~signals[cursor].some
    /\ Advance("merge")
    /\ UNCHANGED <<tree, signals, fixes, rd, merged, mergedFrom, result>>

\* the edits of one more fix, computed on the same tree, join the batch
MergeStep(i) ==
    /\ phase = "merge"
    /\ fixes[i].some
    /\ i \notin Range(mergedFrom)
    /\ merged' = merged \o fixes[i].edits
    /\ mergedFrom' = Append(mergedFrom, i)
    /\ UNCHANGED <<tree, phase, cursor, signals, fixes, rd, result>>

\* one mutation pass rewrites the tree
CommitStep ==
    /\ phase = "merge"
    /\ mergedFrom # <<>>
    /\ result' = commit(tree, merged)
    /\ phase' = "committed"
    /\ UNCHANGED <<tree, cursor, signals, fixes, rd, merged, mergedFrom>>

IdleForEachVars ==
    /\ call = [callee |-> [kind |-> "missing"]]
    /\ feSignals = "idle"

IdleCssVars ==
    /\ tokens = <<>>
    /\ pos = 1
    /\ events = <<>>
    /\ open = {}
    /\ closed = <<>>
    /\ lifoBroken = FALSE
    /\ diags = <<>>
    /\ pc = "idle"
    /\ atRule = [m |-> 0, kind |-> "none", entry |-> 0, block_ok |-> FALSE]
    /\ parsed = "idle"

InitShouty == InitShoutyVars /\ IdleForEachVars /\ IdleCssVars

NextShouty ==
    \/ RunStep /\ UNCHANGED <<forEachVars, cssVars>>
    \/ ActionStep /\ UNCHANGED <<forEachVars, cssVars>>
    \/ NoSignalStep /\ UNCHANGED <<forEachVars, cssVars>>
    \/ (\E i \in 1..NDecl(tree) : MergeStep(i)) /\ UNCHANGED <<forEachVars, cssVars>>
    \/ CommitStep /\ UNCHANGED <<forEachVars, cssVars>>

SpecShouty == InitShouty /\ [][NextShouty]_vars

(***************************************************************************)
(* Claims about NoShoutyConstants.                                         *)
(***************************************************************************)

\* every element but the last has a trailing comma, the last has none
CommasWellPlaced(t) == ~t.lastComma

\* a separated list: element, comma, element, ..., element
ValidList(slots) ==
    /\ Len(slots) % 2 = 1
    /\ \A k \in DOMAIN slots :
          slots[k].node = (IF k % 2 = 1 THEN "declarator" ELSE "comma")

\* C1: in a list of n >= 2 declarators with well placed commas,
\* remove_declarator on declarator d records exactly the removal of d and of
\* one comma (d's own when d is not last, the preceding one when d is last),
\* and committing the batch leaves the other n-1 declarators in their order,
\* separated by n-2 commas, with no leading, trailing or doubled comma.
C1_MultiElementRepair ==
    (rd.called /\ NDecl(tree) >= 2 /\ CommasWellPlaced(tree)) =>
        LET n == NDecl(tree)
            d == rd.index
            comma == IF d < n THEN d ELSE n - 1
            after == commit(tree, rd.edits)
        IN  /\ rd.some
            /\ Len(rd.edits) = 2
            /\ Range(rd.edits) = {remove_node(DeclaratorT(d)), remove_token(CommaT(comma))}
            /\ after.statement
            /\ Len(after.slots) = 2 * (n - 1) - 1
            /\ ValidList(after.slots)
            /\ \A k \in 1..(n - 1) :
                  after.slots[2 * k - 1] = DeclaratorT(IF k < d THEN k ELSE k + 1)

\* the fix that removes the last of three declarators was committed alone
C1_Witness ==
    /\ phase = "committed"
    /\ NDecl(tree) = 3
    /\ CommasWellPlaced(tree)
    /\ mergedFrom = <<3>>
    /\ rd.index = 3
    /\ result.slots = <<DeclaratorT(1), CommaT(1), DeclaratorT(2)>>

Visited == IF phase = "run" THEN 1..(cursor - 1) ELSE 1..NDecl(tree)

\* the identifier's trimmed text is the literal's text between its quotes
SameText(declarator) ==
    \E q1 \in {DQ, SQ}, q2 \in {DQ, SQ}, name \in {NameFOO, NameBAR} \cup {ListName(i) : i \in 1..MaxDecl} :
        /\ declarator.id.text = declarator.id.leading \o name
        /\ declarator.init.token = <<q1>> \o name \o <<q2>>

C9_FixAllOrNothing ==
    \A i \in 1..NDecl(tree) :
        fixes[i].some =>
            /\ \/ Removed(fixes[i].edits, DeclaratorT(i))
               \/ (NDecl(tree) = 1 /\ Removed(fixes[i].edits, StatementT))
            /\ \A k \in 1..Len(signals[i].references) :
                  \E e \in Range(fixes[i].edits) :
                      e = replace_node(ReferenceT(i, k), signals[i].literal)

\* no token or node is the target of two edits of the batch
NoTargetTwice(batch) ==
    \A j, k \in DOMAIN batch : batch[j].target = batch[k].target => j = k

\* C10: the fixes of two or more declarators of one list, computed on the
\* same tree and merged in any order, address no token or node twice, and
\* committing them leaves a valid declarator list or no statement at all.
C10_MergedFixesKeepListValid ==
    (phase = "committed" /\ Len(mergedFrom) >= 2 /\ CommasWellPlaced(tree)) =>
        /\ NoTargetTwice(merged)
        /\ (~result.statement \/ ValidList(result.slots))

(***************************************************************************)
(*                               NoForEach                                 *)
(***************************************************************************)

\* ---- the syntax the rule looks at ---------------------------------------

MemberNames == {"forEach", "foreach", "map", "forEachAsync"}

Missing == [kind |-> "missing"]
Parenthesized(e) == [kind |-> "JsParenthesizedExpression", expression |-> e]

RECURSIVE Wrap(_, _)
\* e inside n pairs of parentheses
Wrap(e, n) == IF n = 0 THEN e ELSE Parenthesized(Wrap(e, n - 1))

Wrapped(S) == {Wrap(e, n) : e \in S, n \in 0..MaxParens}

StringLiteral(q, text) == [kind |-> "JsStringLiteralExpression", token |-> <<q, text, q>>]
Identifier(text) == [kind |-> "JsIdentifierExpression", token |-> <<text>>]
NumberLiteral == [kind |-> "JsNumberLiteralExpression", token |-> <<"0">>]

\* the `member` child of a static member expression
StaticMembers ==
    {Missing}
    \cup [kind : {"JsName", "JsPrivateName"}, token : {<<n>> : n \in MemberNames}]

\* the `member` child of a computed member expression
ComputedMembers ==
    Wrapped({StringLiteral(q, n) : q \in {DQ, SQ}, n \in MemberNames}
            \cup {Identifier(n) : n \in MemberNames}
            \cup {NumberLiteral, Missing})

MemberExpressions ==
    [kind : {"JsStaticMemberExpression"}, member : StaticMembers]
    \cup [kind : {"JsComputedMemberExpression"}, member : ComputedMembers]

OtherCallees ==
    {Identifier(n) : n \in MemberNames}
    \cup {[kind |-> "JsCallExpression"], [kind |-> "JsArrowFunctionExpression"]}

Callees == {Missing} \cup Wrapped(MemberExpressions \cup OtherCallees \cup {Missing})

\* the nodes the engine meets: call expressions, and a for...of statement
Nodes ==
    [kind : {"JsCallExpression"}, callee : Callees]
    \cup {[kind |-> "JsForOfStatement", callee |-> Missing]}

\* ---- helpers ---------------------------------------------------------------

RECURSIVE omit_parentheses(_)
\* AnyJsExpression::omit_parentheses: the innermost expression that the
\* parentheses hold
omit_parentheses(e) ==
    IF e.kind = "JsParenthesizedExpression" /\ e.expression.kind # "missing"
    THEN omit_parentheses(e.expression)
    ELSE e

\* AnyJsMemberExpression::cast_ref
is_member_expression(e) ==
    e.kind \in {"JsStaticMemberExpression", "JsComputedMemberExpression"}

NoName == [some |-> FALSE, text |-> <<>>]
SomeName(text) == [some |-> TRUE, text |-> text]

\* AnyJsMemberExpression::member_name and the text() of its value: the name
\* token of a static member, the inner text of a computed string member
member_name(e) ==
    IF e.kind = "JsStaticMemberExpression"
    THEN IF e.member.kind = "JsName" THEN SomeName(e.member.token) ELSE NoName
    ELSE LET member == omit_parentheses(e.member)
         IN  IF member.kind = "JsStringLiteralExpression"
             THEN SomeName(inner_string_text(member.token))
             ELSE NoName

\* run that casts the callee without omitting its parentheses
NoForEach_run_keep_parentheses(node) ==
    IF node.callee.kind = "missing" THEN 0
    ELSE IF ~is_member_expression(node.callee) THEN 0
    ELSE LET name == member_name(node.callee)
         IN  IF ~name.some THEN 0
             ELSE IF name.text = <<"forEach">> THEN 1 ELSE 0

\* NoForEach::run on a call expression: the number of signals of the
\* Option<()> it returns
NoForEach_run(node) ==
    IF node.callee.kind = "missing" THEN 0                      \* callee().ok()?
    ELSE LET callee == omit_parentheses(node.callee)
         IN  IF ~is_member_expression(callee) THEN 0            \* cast_ref(..)?
             ELSE LET name == member_name(callee)
                  IN  IF ~name.some THEN 0                      \* member_name()?
                      ELSE IF name.text = <<"forEach">> THEN 1 ELSE 0

\* ---- the engine over one node --------------------------------------------

NotRun == [ran |-> FALSE, count |-> 0]

InitForEachVars ==
    /\ call \in Nodes
    /\ feSignals = NotRun

\* the node matches the rule's query, Ast<JsCallExpression>: run is invoked
RunForEach ==
    /\ ~feSignals.ran
    /\ call.kind = "JsCallExpression"
    /\ feSignals' = [ran |-> TRUE, count |-> NoForEach_run(call)]
    /\ UNCHANGED call

\* any other node is outside the query: the rule is not invoked on it
SkipNode ==
    /\ ~feSignals.ran
    /\ call.kind # "JsCallExpression"
    /\ feSignals' = [ran |-> TRUE, count |-> 0]
    /\ UNCHANGED call

InitForEach == InitForEachVars /\ IdleShoutyVars /\ IdleCssVars

NextForEach ==
    \/ RunForEach /\ UNCHANGED <<shoutyVars, cssVars>>
    \/ SkipNode /\ UNCHANGED <<shoutyVars, cssVars>>

SpecForEach == InitForEach /\ [][NextForEach]_vars

(***************************************************************************)
(* Claims about NoForEach.                                                 *)
(***************************************************************************)

\* the member expressions named exactly forEach: `x.forEach`, `x['forEach']`
ForEachMembers ==
    {[kind |-> "JsStaticMemberExpression",
      member |-> [kind |-> "JsName", token |-> <<"forEach">>]]}
    \cup {[kind |-> "JsComputedMemberExpression", member |-> Wrap(StringLiteral(q, "forEach"), n)] :
            q \in {DQ, SQ}, n \in 0..MaxParens}

\* C3: run on a call expression gives exactly one signal when the callee,
\* parentheses omitted, is a static or computed member expression named
\* exactly "forEach", and no signal in every other case (no callee, not a
\* member expression, no determinable name, another name, a for...of loop).
C3_ForEachSignalsExactly ==
    feSignals.ran =>
        /\ feSignals.count \in {0, 1}
        /\ feSignals.count = 1 <=>
              /\ call.kind = "JsCallExpression"
              /\ \E e \in ForEachMembers, n \in 0..MaxParens : call.callee = Wrap(e, n)

\* run signalled a parenthesized callee with a computed 'forEach' member
C3_Witness ==
    /\ feSignals.ran
    /\ feSignals.count = 1
    /\ call.callee.kind = "JsParenthesizedExpression"
    /\ omit_parentheses(call.callee).kind = "JsComputedMemberExpression"

(***************************************************************************)
(*                     parse_color_profile_at_rule                         *)
(***************************************************************************)

\* ---- tokens ----------------------------------------------------------------

TokenKinds == {"COLOR_PROFILE_KW", "IDENT", "NUMBER", "L_CURLY", "R_CURLY"}
\* a token: its kind and whether a line break precedes it
Tokens == [kind : TokenKinds, lb : BOOLEAN]
\* the sources: the first token is the one the parser stands at
Sources == {src \in SeqsUpTo(Tokens, MaxTokens) : src # <<>> => ~src[1].lb}

\* ---- the parser state and the marker API ---------------------------------

\* The parser as one value: the operators below take it and return the
\* parser after the call.
Parser == [pos |-> pos, events |-> events, open |-> open, closed |-> closed,
           lifoBroken |-> lifoBroken, diags |-> diags]

StartEvent == [ev |-> "start", kind |-> "TOMBSTONE", at |-> 0]
FinishEvent == [ev |-> "finish", kind |-> "", at |-> 0]
TokenEvent(kind, at) == [ev |-> "token", kind |-> kind, at |-> at]

\* p.cur()
cur(p) == IF p.pos > Len(tokens) THEN "EOF" ELSE tokens[p.pos].kind
\* p.at(kind)
at(p, kind) == cur(p) = kind
\* p.has_preceding_line_break()
has_preceding_line_break(p) == p.pos <= Len(tokens) /\ tokens[p.pos].lb

\* the marker p.start() is about to return: the index of its start event
next_marker(p) == Len(p.events) + 1
\* p.start(): open a marker at the current output position
start(p) ==
    [p EXCEPT !.events = Append(@, StartEvent),
              !.open = @ \cup {next_marker(p)}]

\* p.bump(kind) / p.bump_any(): the current token joins the output
bump(p) ==
    [p EXCEPT !.events = Append(@, TokenEvent(cur(p), p.pos)),
              !.pos = @ + 1]

\* m.complete(p, kind): the content buffered since m becomes a node of `kind`
complete(p, m, kind) ==
    [p EXCEPT !.events = Append([@ EXCEPT ![m].kind = kind], FinishEvent),
              !.open = @ \ {m},
              !.closed = Append(@, m),
              !.lifoBroken = @ \/ (\E later \in p.open : later > m)]

\* p.error(diagnostic)
error(p, diagnostic) == [p EXCEPT !.diags = Append(@, diagnostic)]

\* ---- the parsers the function calls --------------------------------------

Ok(p) == [p |-> p, ok |-> TRUE]
Err(p) == [p |-> p, ok |-> FALSE]

\* parse_custom_identifier: Present (ok) with a CSS_CUSTOM_IDENTIFIER node
\* when the parser is at an identifier, Absent otherwise
parse_custom_identifier(p) ==
    IF at(p, "IDENT")
    THEN Ok(complete(bump(start(p)), next_marker(p), "CSS_CUSTOM_IDENTIFIER"))
    ELSE Err(p)

\* ParseRecovery::recovered: the parser stands at a resumption point
recovered(p, recovery) ==
    \/ cur(p) \in recovery.set
    \/ at(p, "EOF")
    \/ (recovery.line_break /\ has_preceding_line_break(p))

RECURSIVE bump_until_recovered(_, _)
bump_until_recovered(p, recovery) ==
    IF recovered(p, recovery) THEN p ELSE bump_until_recovered(bump(p), recovery)

\* ParseRecovery::recover: the tokens up to the next resumption point are
\* wrapped, one at a time, in a node of the recovery's bogus kind; nothing
\* happens when the parser already stands at a resumption point
recover(p, recovery) ==
    IF recovered(p, recovery) THEN p
    ELSE complete(bump_until_recovered(start(p), recovery), next_marker(p), recovery.kind)

\* ParsedSyntax::or_recover: Ok when the element was parsed; when it is
\* missing or malformed the recovery runs, a diagnostic says what was
\* expected, and the caller is told to finalize its construct as an error
or_recover(syntax, recovery, expected) ==
    IF syntax.ok THEN syntax
    ELSE Err(error(recover(syntax.p, recovery), expected))

COLOR_PROFILE_RECOVERY_SET == {"L_CURLY"}
ColorProfileRecovery ==
    [kind |-> "CSS_BOGUS", set |-> COLOR_PROFILE_RECOVERY_SET, line_break |-> TRUE]
BlockRecovery ==
    [kind |-> "CSS_BOGUS_BLOCK", set |-> {"R_CURLY"}, line_break |-> TRUE]

RECURSIVE bump_declarations(_)
\* the content of a block: everything up to the closing brace
bump_declarations(p) ==
    IF cur(p) \in {"R_CURLY", "EOF"} THEN p ELSE bump_declarations(bump(p))

\* the declaration list block `{ ... }`: Absent unless the parser is at `{`;
\* a missing `}` is reported and the block is completed all the same
parse_declaration_list_block(p) ==
    IF ~at(p, "L_CURLY") THEN Err(p)
    ELSE LET block == next_marker(p)
             opened == bump(start(p))
             list == next_marker(opened)
             items == complete(bump_declarations(start(opened)), list, "CSS_DECLARATION_LIST")
             braced == IF at(items, "R_CURLY") THEN bump(items)
                       ELSE error(items, "expected_r_curly")
         IN  Ok(complete(braced, block, "CSS_DECLARATION_LIST_BLOCK"))

\* parse_or_recover_declaration_list_block
parse_or_recover_declaration_list_block(p) ==
    or_recover(parse_declaration_list_block(p), BlockRecovery, "expected_block")

\* ---- parse_color_profile_at_rule, statement by statement -----------------

is_color_profile_at_rule(p) == at(p, "COLOR_PROFILE_KW")

\* the early return with the marker already started
return_absent_after_start(p) == start(p)

\* `return Absent`: the parser as the caller gets it back
return_absent(p) == p

\* p.bump before p.start: the keyword is consumed outside the marker
open_at_rule_bump_first(p) == [p |-> start(bump(p)), m |-> next_marker(bump(p))]

\* `let m = p.start(); p.bump(T![color_profile]);`
open_at_rule(p) == [p |-> bump(start(p)), m |-> next_marker(p)]

\* the kinds of the two branches, exchanged
name_kind_swapped(ok) == IF ok THEN "CSS_BOGUS_AT_RULE" ELSE "CSS_COLOR_PROFILE_AT_RULE"

\* `let kind = if ... .is_ok() { .. } else { .. }`
name_kind(ok) == IF ok THEN "CSS_COLOR_PROFILE_AT_RULE" ELSE "CSS_BOGUS_AT_RULE"

\* the identifier after the keyword, with its recovery
parse_name(p) ==
    or_recover(parse_custom_identifier(p), ColorProfileRecovery,
               "expected_non_css_wide_keyword_identifier")

\* the block error branch without its `return`: m is completed again
complete_at_rule_no_return(p, m, kind, block_ok) ==
    IF ~block_ok
    THEN complete(complete(p, m, "CSS_BOGUS_AT_RULE"), m, kind)
    ELSE complete(p, m, kind)

\* `if block.is_err() { return Present(m.complete(p, CSS_BOGUS_AT_RULE)); }
\*  Present(m.complete(p, kind))`
complete_at_rule(p, m, kind, block_ok) ==
    IF ~block_ok
    THEN complete(p, m, "CSS_BOGUS_AT_RULE")
    ELSE complete(p, m, kind)

\* ---- the function as a process --------------------------------------------

NoAtRule == [m |-> 0, kind |-> "none", entry |-> 0, block_ok |-> FALSE]

SetParser(p) ==
    /\ pos' = p.pos
    /\ events' = p.events
    /\ open' = p.open
    /\ closed' = p.closed
    /\ lifoBroken' = p.lifoBroken
    /\ diags' = p.diags

InitCssVars ==
    /\ tokens \in Sources
    /\ pos = 1
    /\ events = <<>>
    /\ open = {}
    /\ closed = <<>>
    /\ lifoBroken = FALSE
    /\ diags = <<>>
    /\ pc = "start"
    /\ atRule = NoAtRule
    /\ parsed = "pending"

\* lines 20-22: not at the keyword
ReturnAbsent ==
    /\ pc = "start"
    /\ ~is_color_profile_at_rule(Parser)
    /\ SetParser(return_absent(Parser))
    /\ atRule' = [atRule EXCEPT !.entry = pos]
    /\ parsed' = "Absent"
    /\ pc' = "done"
    /\ UNCHANGED tokens

\* lines 24-26
OpenAtRule ==
    /\ pc = "start"
    /\ is_color_profile_at_rule(Parser)
    /\ LET opened == open_at_rule(Parser)
       IN  /\ SetParser(opened.p)
           /\ atRule' = [atRule EXCEPT !.m = opened.m, !.entry = pos]
    /\ pc' = "name"
    /\ UNCHANGED <<tokens, parsed>>

\* lines 29-41
ParseName ==
    /\ pc = "name"
    /\ LET name == parse_name(Parser)
       IN  /\ SetParser(name.p)
           /\ atRule' = [atRule EXCEPT !.kind = name_kind(name.ok)]
    /\ pc' = "block"
    /\ UNCHANGED <<tokens, parsed>>

\* line 43, the call
ParseBlock ==
    /\ pc = "block"
    /\ LET block == parse_or_recover_declaration_list_block(Parser)
       IN  /\ SetParser(block.p)
           /\ atRule' = [atRule EXCEPT !.block_ok = block.ok]
    /\ pc' = "complete"
    /\ UNCHANGED <<tokens, parsed>>

\* lines 43-47, the two returns of Present
CompleteAtRule ==
    /\ pc = "complete"
    /\ SetParser(complete_at_rule(Parser, atRule.m, atRule.kind, atRule.block_ok))
    /\ parsed' = "Present"
    /\ pc' = "done"
    /\ UNCHANGED <<tokens, atRule>>

InitCss == InitCssVars /\ IdleShoutyVars /\ IdleForEachVars

NextCss ==
    \/ ReturnAbsent /\ UNCHANGED <<shoutyVars, forEachVars>>
    \/ OpenAtRule /\ UNCHANGED <<shoutyVars, forEachVars>>
    \/ ParseName /\ UNCHANGED <<shoutyVars, forEachVars>>
    \/ ParseBlock /\ UNCHANGED <<shoutyVars, forEachVars>>
    \/ CompleteAtRule /\ UNCHANGED <<shoutyVars, forEachVars>>

SpecCss == InitCss /\ [][NextCss]_vars

(***************************************************************************)
(* Claims about parse_color_profile_at_rule.                               *)
(***************************************************************************)

RECURSIVE MatchFinish(_, _, _)
\* the finish event that closes the node whose content starts at event i
MatchFinish(evs, i, depth) ==
    IF i > Len(evs) THEN 0
    ELSE IF evs[i].ev = "start" THEN MatchFinish(evs, i + 1, depth + 1)
    ELSE IF evs[i].ev = "finish"
         THEN IF depth = 1 THEN i ELSE MatchFinish(evs, i + 1, depth - 1)
    ELSE MatchFinish(evs, i + 1, depth)

\* the last event of the node started at event m (0: the node is unfinished)
NodeEnd(evs, m) == MatchFinish(evs, m + 1, 1)

RECURSIVE TokensFrom(_, _, _)
\* the source positions of the token events a..b, in event order
TokensFrom(evs, a, b) ==
    IF a > b THEN <<>>
    ELSE (IF evs[a].ev = "token" THEN <<evs[a].at>> ELSE <<>>) \o TokensFrom(evs, a + 1, b)

RECURSIVE ChildKindsFrom(_, _, _, _)
ChildKindsFrom(evs, i, last, depth) ==
    IF i > last THEN {}
    ELSE IF evs[i].ev = "start"
         THEN (IF depth = 1 THEN {evs[i].kind} ELSE {}) \cup ChildKindsFrom(evs, i + 1, last, depth + 1)
    ELSE IF evs[i].ev = "finish" THEN ChildKindsFrom(evs, i + 1, last, depth - 1)
    ELSE ChildKindsFrom(evs, i + 1, last, depth)

\* the kinds of the child nodes of the node started at event m
ChildKinds(evs, m) == ChildKindsFrom(evs, m + 1, NodeEnd(evs, m), 1)

Returned(value) == pc = "done" /\ parsed = value

\* the source starts with the keyword and no identifier follows it
NameMissing ==
    /\ tokens # <<>> /\ tokens[1].kind = "COLOR_PROFILE_KW"
    /\ (Len(tokens) < 2 \/ tokens[2].kind # "IDENT")

\* where the recovery of the name stops: the first `{`, line break or EOF
ResumePoint ==
    CHOOSE k \in 2..(Len(tokens) + 1) :
        /\ (k > Len(tokens) \/ tokens[k].kind = "L_CURLY" \/ tokens[k].lb)
        /\ \A j \in 2..(k - 1) : tokens[j].kind # "L_CURLY" /\ ~tokens[j].lb

\* a block starts where the recovery of the name stops
BlockFollows == ResumePoint <= Len(tokens) /\ tokens[ResumePoint].kind = "L_CURLY"

C5_AbsentLeavesParserUntouched ==
    (pc = "done" /\ (tokens = <<>> \/ tokens[1].kind # "COLOR_PROFILE_KW")) =>
        /\ parsed = "Absent"
        /\ pos = atRule.entry
        /\ events = <<>>
        /\ open = {}
        /\ closed = <<>>
        /\ diags = <<>>

\* Absent was returned in front of an identifier the caller can still parse
C5_Witness ==
    /\ Returned("Absent")
    /\ tokens # <<>>
    /\ tokens[pos].kind = "IDENT"

\* C6: the marker opened at the start is completed exactly once on every
\* path that returns Present, after every marker opened later was resolved;
\* no marker is ever completed while a later-opened marker is open.
C6_MarkerDiscipline ==
    /\ ~lifoBroken
    /\ (pc \in {"name", "block", "complete"} => open = {atRule.m})
    /\ Returned("Present") =>
          /\ open = {}
          /\ Cardinality({i \in DOMAIN closed : closed[i] = atRule.m}) = 1
          /\ closed[Len(closed)] = atRule.m
          /\ \A i \in DOMAIN closed : closed[i] >= atRule.m

\* Present was returned after the recovery node, the declaration list and
\* the block had been completed before the at-rule
C6_Witness ==
    /\ Returned("Present")
    /\ Len(closed) = 4
    /\ events[closed[1]].kind = "CSS_BOGUS"
    /\ events[closed[3]].kind = "CSS_DECLARATION_LIST_BLOCK"

\* C7: for a source that starts with the keyword, the tokens consumed by the
\* call are exactly the tokens under the returned node, in source order,
\* whichever of the two kinds the node has.
C7_NoTokenLost ==
    Returned("Present") =>
        LET m == atRule.m
        IN  /\ events[m].ev = "start"
            /\ events[m].kind \in {"CSS_COLOR_PROFILE_AT_RULE", "CSS_BOGUS_AT_RULE"}
            /\ NodeEnd(events, m) = Len(events)
            /\ TokensFrom(events, m, Len(events))
                 = [i \in 1..(pos - atRule.entry) |-> atRule.entry + i - 1]
            /\ TokensFrom(events, 1, Len(events)) = TokensFrom(events, m, Len(events))
            /\ \A i \in DOMAIN events :
                  events[i].ev = "token" => events[i].kind = tokens[events[i].at].kind

\* a bogus at-rule swallowed a whole four-token source, part of it in recovery
C7_Witness ==
    /\ Returned("Present")
    /\ Len(tokens) = 4
    /\ pos = 5
    /\ events[atRule.m].kind = "CSS_BOGUS_AT_RULE"
    /\ "CSS_BOGUS" \in ChildKinds(events, atRule.m)

=============================================================================
